---------------------------- MODULE Spec2Model ----------------------------
(***************************************************************************)
(* Model of src/01-overview/snake-chatgpt/src/App.jsx.  The file holds two *)
(* React components, both named SnakeGame:                                 *)
(*   variant "A", lines 1-267  (START_SNAKE, running, speed, buttons);     *)
(*   variant "B", lines 269-509 (INITIAL_SNAKE, gameStarted, isPaused,     *)
(*                               wallMode).                                *)
(* A state of the model is the component state as of the last render.     *)
(* Every action is one callback (timer callback, keydown listener, button  *)
(* handler) run to completion together with the render that follows it:   *)
(* the browser runs callbacks one at a time.  State updater functions are  *)
(* taken to run once per update (production React).                        *)
(***************************************************************************)
EXTENDS Integers, Sequences, FiniteSets

(***************************************************************************)
(* Program constants.                                                      *)
(***************************************************************************)
Cell(px, py) == [x |-> px, y |-> py]

BOARD_SIZE == 20

START_SNAKE == <<Cell(9, 10), Cell(8, 10), Cell(7, 10)>>

START_DIRECTION == Cell(1, 0)

INITIAL_SPEED == 150

GRID_SIZE == 20

INITIAL_SNAKE == <<Cell(10, 10)>>

INITIAL_DIRECTION == Cell(1, 0)

INITIAL_FOOD == Cell(15, 15)

(***************************************************************************)
(* Bounds of the exploration.                                              *)
(***************************************************************************)
\* Math.random is explored over the first MaxDraws cells of DrawOrder.
MaxDraws == 2

\* At most MaxTurns changes of direction per game.
MaxTurns == 3

\* At most MaxClicks presses of Faster/Slower per game.
MaxClicks == 6

\* At most MaxEats food cells are eaten per game.
MaxEats == 1

DrawOrder ==
    <<Cell(15, 15), Cell(11, 10), Cell(8, 10), Cell(15, 16), Cell(12, 10)>>

Draws == {DrawOrder[i] : i \in 1..(IF MaxDraws < Len(DrawOrder) THEN MaxDraws ELSE Len(DrawOrder))}

Keys == {"ArrowUp", "ArrowDown", "ArrowLeft", "ArrowRight", "w", "a", " "}

NoDir == Cell(0, 0)

VARIABLES
    variant,      \* "A" or "B": which of the two components is mounted
    snake,        \* useState snake: sequence of cells, head first
    direction,    \* useState direction (in A also directionRef.current)
    food,         \* useState food
    running,      \* A: useState running
    speed,        \* A: useState speed; B: the constant interval INITIAL_SPEED
    score,        \* useState score
    gameOver,     \* useState gameOver
    isPaused,     \* B: useState isPaused
    gameStarted,  \* B: useState gameStarted
    wallMode,     \* B: useState wallMode; A has lethal walls only
    op,           \* history: the callback that ran last (a key press: the key)
    lastDir,      \* history: heading applied by the last tick of this game
    turns,        \* history: changes of direction in this game
    clicks,       \* history: Faster/Slower presses in this game
    timers        \* the armed setInterval timers, oldest first: period, and
                  \* whether the effect run of the last render armed it

vars == <<variant, snake, direction, food, running, speed, score, gameOver,
          isPaused, gameStarted, wallMode, op, lastDir, turns, clicks,
          timers>>

(***************************************************************************)
(* Helpers.                                                                *)
(***************************************************************************)
Range(s) == {s[i] : i \in 1..Len(s)}

Max(a, b) == IF a >= b THEN a ELSE b

Min(a, b) == IF a <= b THEN a ELSE b

\* mutant: cells compared by object identity (prev.includes(newHead)), which
\* never matches a freshly built cell
someByIdentity(s, c) == FALSE

\* mutant: the cell the tail is about to vacate is not tested
someButTail(s, c) == \E i \in 1..(Len(s) - 1) : s[i].x = c.x /\ s[i].y = c.y

\* prev.some(p => p.x === c.x && p.y === c.y)
some(s, c) == \E i \in 1..Len(s) : s[i].x = c.x /\ s[i].y = c.y

\* [newHead, ...prev]
Prepend(c, s) == <<c>> \o s

\* mutant: the heading is added twice
movedTwice(head, dir) == Cell(head.x + 2 * dir.x, head.y + 2 * dir.y)

\* { x: head.x + dir.x, y: head.y + dir.y }
moved(head, dir) == Cell(head.x + dir.x, head.y + dir.y)

\* mutant: shift() in place of pop(): the new head is dropped, not the tail
popFront(s) == SubSeq(s, 2, Len(s))

\* newSnake.pop()
pop(s) == SubSeq(s, 1, Len(s) - 1)

\* directionRef.current = direction on every render; start and Reset assign
\* both together
directionRef == direction

\* randomFood(excludeCells): the cells the rejection loop can return
randomFood(excludeCells) == {c \in Draws : c \notin Range(excludeCells)}

\* generateFood(): the loop tests the `snake` captured by useCallback
generateFood(captured) == {c \in Draws : ~some(captured, c)}

\* the key map of handleKey; NoDir stands for `undefined`
map(key) ==
    CASE key \in {"ArrowUp", "w"}    -> Cell(0, -1)
      [] key \in {"ArrowDown", "s"}  -> Cell(0, 1)
      [] key \in {"ArrowLeft", "a"}  -> Cell(-1, 0)
      [] key \in {"ArrowRight", "d"} -> Cell(1, 0)
      [] OTHER                       -> NoDir

\* mutant: the ArrowLeft case tests prev.x against -1, copied from ArrowRight
switchDirectionCopied(prev, key) ==
    CASE key = "ArrowUp"    -> IF prev.y # 1 THEN Cell(0, -1) ELSE prev
      [] key = "ArrowDown"  -> IF prev.y # -1 THEN Cell(0, 1) ELSE prev
      [] key = "ArrowLeft"  -> IF prev.x # -1 THEN Cell(-1, 0) ELSE prev
      [] key = "ArrowRight" -> IF prev.x # -1 THEN Cell(1, 0) ELSE prev
      [] OTHER              -> prev

\* the switch of handleKeyPress inside setDirection(prev => ...)
switchDirection(prev, key) ==
    CASE key = "ArrowUp"    -> IF prev.y # 1 THEN Cell(0, -1) ELSE prev
      [] key = "ArrowDown"  -> IF prev.y # -1 THEN Cell(0, 1) ELSE prev
      [] key = "ArrowLeft"  -> IF prev.x # 1 THEN Cell(-1, 0) ELSE prev
      [] key = "ArrowRight" -> IF prev.x # -1 THEN Cell(1, 0) ELSE prev
      [] OTHER              -> prev

\* mutant: variant B's reward is added
scoreUpdaterTen(s) == s + 10

\* setScore((s) => s + 1)
scoreUpdater(s) == s + 1

\* mutant: the floor of 40 is missing
speedAfterFoodNoFloor(sp) == sp - 4

\* the updater (sp) => Math.max(40, sp - 4)
speedAfterFood(sp) == Max(40, sp - 4)

startsWithArrow(key) == key \in {"ArrowUp", "ArrowDown", "ArrowLeft", "ArrowRight"}

\* mutant: > in place of >= on the far edges
\* mutant: only the x coordinate is tested
OutsideXOnly(c, size) == c.x < 0 \/ c.x >= size

OutsideOffByOne(c, size) == c.x < 0 \/ c.x > size \/ c.y < 0 \/ c.y > size

Outside(c, size) == c.x < 0 \/ c.x >= size \/ c.y < 0 \/ c.y >= size

\* mutant: a negative coordinate wraps to GRID_SIZE, one past the last cell
WrapOffByOne(c) ==
    LET x1 == IF c.x < 0 THEN GRID_SIZE ELSE c.x
        y1 == IF c.y < 0 THEN GRID_SIZE ELSE c.y
    IN  Cell(IF c.x >= GRID_SIZE THEN 0 ELSE x1, IF c.y >= GRID_SIZE THEN 0 ELSE y1)

\* pass-through mode: the four wrapping assignments, in order
Wrap(c) ==
    LET x1 == IF c.x < 0 THEN GRID_SIZE - 1 ELSE c.x
        x2 == IF x1 >= GRID_SIZE THEN 0 ELSE x1
        y1 == IF c.y < 0 THEN GRID_SIZE - 1 ELSE c.y
        y2 == IF y1 >= GRID_SIZE THEN 0 ELSE y1
    IN  Cell(x2, y2)

\* an interval armed by an earlier render's effect
Aged(ts) == [i \in 1..Len(ts) |-> [ts[i] EXCEPT !.fresh = FALSE]]

Interval(ms) == [period |-> ms, fresh |-> TRUE]

\* mutant: the effect returns no cleanup, so clearInterval is never called
tickEffectNoCleanup(renewed) ==
    timers' =
      IF ~renewed /\ <<running', speed', food', gameOver'>>
                       = <<running, speed, food, gameOver>>
      THEN Aged(timers)
      ELSE IF running' /\ ~gameOver'
      THEN Append(Aged(timers), Interval(speed'))
      ELSE Aged(timers)

\* A's useEffect(..., [running, speed, food, gameOver]), run after the render
\* when a dependency changed (`renewed`: a state setter was given a new
\* object of equal value): the cleanup of the last run clears the interval
\* that run armed, then a new interval is armed unless !running or gameOver
tickEffect(renewed) ==
    timers' =
      IF ~renewed /\ <<running', speed', food', gameOver'>>
                       = <<running, speed, food, gameOver>>
      THEN Aged(timers)
      ELSE LET kept == IF running /\ ~gameOver
                       THEN SubSeq(timers, 1, Len(timers) - 1)
                       ELSE timers
           IN  IF running' /\ ~gameOver'
               THEN Append(Aged(kept), Interval(speed'))
               ELSE Aged(kept)

\* B's useEffect(..., [moveSnake]): moveSnake is rebuilt when one of
\* direction, food, gameOver, isPaused, gameStarted, generateFood (snake) and
\* wallMode changed; the cleanup clears the interval, a new one is armed
intervalEffect(renewed) ==
    timers' =
      IF ~renewed /\ <<direction', food', gameOver', isPaused', gameStarted',
                        snake', wallMode'>>
                       = <<direction, food, gameOver, isPaused, gameStarted,
                           snake, wallMode>>
      THEN Aged(timers)
      ELSE Append(Aged(SubSeq(timers, 1, Len(timers) - 1)),
                  Interval(INITIAL_SPEED))

\* setDirection's updater returned a new object, not prev
renewedDirection(prev, key) ==
    startsWithArrow(key) /\ switchDirection(prev, key) = map(key)

(***************************************************************************)
(* Construction.                                                           *)
(***************************************************************************)
InitA ==
    /\ variant = "A"
    /\ snake = START_SNAKE
    /\ direction = START_DIRECTION
    /\ food \in randomFood(START_SNAKE)
    /\ running = FALSE
    /\ speed = INITIAL_SPEED
    /\ score = 0
    /\ gameOver = FALSE
    /\ isPaused = FALSE
    /\ gameStarted = FALSE
    /\ wallMode = "wall"
    /\ timers = <<>>

InitB ==
    /\ variant = "B"
    /\ snake = INITIAL_SNAKE
    /\ direction = INITIAL_DIRECTION
    /\ food = INITIAL_FOOD
    /\ gameOver = FALSE
    /\ score = 0
    /\ isPaused = FALSE
    /\ gameStarted = FALSE
    /\ wallMode = "wall"
    /\ running = FALSE
    /\ speed = INITIAL_SPEED
    /\ timers = <<Interval(INITIAL_SPEED)>>

Init ==
    /\ InitA \/ InitB
    /\ op = "init"
    /\ lastDir = NoDir
    /\ turns = 0
    /\ clicks = 0

(***************************************************************************)
(* Variant A.                                                              *)
(***************************************************************************)
\* keydown listener
handleKey ==
    /\ variant = "A"
    /\ \E key \in Keys :
         /\ LET newDir == map(key)
                cur == directionRef
            IN  IF newDir = NoDir
                THEN UNCHANGED <<direction, turns>>
                ELSE IF cur.x + newDir.x = 0 /\ cur.y + newDir.y = 0
                THEN UNCHANGED <<direction, turns>>
                ELSE /\ direction' = newDir
                     /\ IF newDir = direction
                        THEN turns' = turns
                        ELSE /\ turns < MaxTurns
                             /\ clicks = 0
                             /\ turns' = turns + 1
         /\ op' = key
    /\ UNCHANGED <<variant, snake, food, running, speed, score, gameOver,
                   isPaused, gameStarted, wallMode, lastDir, clicks>>
    /\ tickEffect(FALSE)

\* the setInterval callback: it runs while an interval is armed, which the
\* effect does only while running and not game over
tickA ==
    /\ variant = "A"
    /\ timers # <<>>
    /\ LET prev == snake
           head == prev[1]
           dir == directionRef
           newHead == moved(head, dir)
           hitsSelf == some(prev, newHead)
           ate == newHead.x = food.x /\ newHead.y = food.y
           newSnake == Prepend(newHead, prev)
       IN  IF Outside(newHead, BOARD_SIZE) \/ hitsSelf
           THEN /\ gameOver' = TRUE
                /\ running' = FALSE
                /\ UNCHANGED <<snake, food, score, speed>>
           ELSE IF ~ate
           THEN /\ snake' = pop(newSnake)
                /\ UNCHANGED <<food, score, speed, gameOver, running>>
           ELSE /\ Len(prev) - Len(START_SNAKE) < MaxEats
                /\ snake' = newSnake
                /\ score' = scoreUpdater(score)
                /\ speed' = speedAfterFood(speed)
                /\ food' \in randomFood(newSnake)
                /\ UNCHANGED <<gameOver, running>>
    /\ op' = "tick"
    /\ lastDir' = directionRef
    /\ UNCHANGED <<variant, direction, isPaused, gameStarted, wallMode,
                   turns, clicks>>
    /\ tickEffect(food' # food)

\* mutant: setSpeed(INITIAL_SPEED) is missing
startBodyKeepsSpeed ==
    /\ snake' = START_SNAKE
    /\ direction' = START_DIRECTION
    /\ food' \in randomFood(START_SNAKE)
    /\ running' = TRUE
    /\ gameOver' = FALSE
    /\ score' = 0
    /\ UNCHANGED speed

startBody ==
    /\ snake' = START_SNAKE
    /\ direction' = START_DIRECTION
    /\ food' \in randomFood(START_SNAKE)
    /\ running' = TRUE
    /\ gameOver' = FALSE
    /\ score' = 0
    /\ speed' = INITIAL_SPEED

start ==
    /\ variant = "A"
    /\ startBody
    /\ op' = "start"
    /\ lastDir' = NoDir
    /\ turns' = 0
    /\ clicks' = 0
    /\ UNCHANGED <<variant, isPaused, gameStarted, wallMode>>
    /\ tickEffect(TRUE)

pause ==
    /\ variant = "A"
    /\ running' = FALSE
    /\ op' = "pause"
    /\ UNCHANGED <<variant, snake, direction, food, speed, score, gameOver,
                   isPaused, gameStarted, wallMode, lastDir, turns, clicks>>
    /\ tickEffect(FALSE)

\* mutant: resume clears the game-over flag instead of testing it
resumeClearsGameOver ==
    /\ variant = "A"
    /\ running' = TRUE
    /\ gameOver' = FALSE
    /\ op' = "resume"
    /\ UNCHANGED <<variant, snake, direction, food, speed, score,
                   isPaused, gameStarted, wallMode, lastDir, turns, clicks>>
    /\ tickEffect(FALSE)

resume ==
    /\ variant = "A"
    /\ IF ~gameOver THEN running' = TRUE ELSE UNCHANGED running
    /\ op' = "resume"
    /\ UNCHANGED <<variant, snake, direction, food, speed, score, gameOver,
                   isPaused, gameStarted, wallMode, lastDir, turns, clicks>>
    /\ tickEffect(FALSE)

restart ==
    /\ variant = "A"
    /\ startBody
    /\ op' = "restart"
    /\ lastDir' = NoDir
    /\ turns' = 0
    /\ clicks' = 0
    /\ UNCHANGED <<variant, isPaused, gameStarted, wallMode>>
    /\ tickEffect(TRUE)

\* the Reset button's inline handler
Reset ==
    /\ variant = "A"
    /\ snake' = START_SNAKE
    /\ direction' = START_DIRECTION
    /\ food' \in randomFood(START_SNAKE)
    /\ score' = 0
    /\ gameOver' = FALSE
    /\ running' = FALSE
    /\ speed' = INITIAL_SPEED
    /\ op' = "reset"
    /\ lastDir' = NoDir
    /\ turns' = 0
    /\ clicks' = 0
    /\ UNCHANGED <<variant, isPaused, gameStarted, wallMode>>
    /\ tickEffect(TRUE)

\* mutant: the interval has no ceiling
slowerUpdaterNoCeiling(s) == s + 20

\* setSpeed((s) => Math.min(1000, s + 20))
slowerUpdater(s) == Min(1000, s + 20)

\* setSpeed((s) => Math.max(40, s - 20))
fasterUpdater(s) == Max(40, s - 20)

\* the Faster button's onClick
FasterHandler ==
    /\ variant = "A"
    /\ speed' = fasterUpdater(speed)
    /\ op' = "faster"
    /\ UNCHANGED <<variant, snake, direction, food, running, score, gameOver,
                   isPaused, gameStarted, wallMode, lastDir, turns>>
    /\ tickEffect(FALSE)

\* the Slower button's onClick
SlowerHandler ==
    /\ variant = "A"
    /\ speed' = slowerUpdater(speed)
    /\ op' = "slower"
    /\ UNCHANGED <<variant, snake, direction, food, running, score, gameOver,
                   isPaused, gameStarted, wallMode, lastDir, turns>>
    /\ tickEffect(FALSE)

\* a click within the budget of a game in which no key was pressed
Faster ==
    /\ turns = 0
    /\ clicks < MaxClicks
    /\ clicks' = clicks + 1
    /\ FasterHandler

Slower ==
    /\ turns = 0
    /\ clicks < MaxClicks
    /\ clicks' = clicks + 1
    /\ SlowerHandler

\* clicks that are not counted: the clamps bound the interval
FasterUncounted ==
    /\ UNCHANGED clicks
    /\ FasterHandler

SlowerUncounted ==
    /\ UNCHANGED clicks
    /\ SlowerHandler

(***************************************************************************)
(* Variant B.                                                              *)
(***************************************************************************)
resetGame ==
    /\ variant = "B"
    /\ snake' = INITIAL_SNAKE
    /\ direction' = INITIAL_DIRECTION
    /\ food' = INITIAL_FOOD
    /\ gameOver' = FALSE
    /\ score' = 0
    /\ isPaused' = FALSE
    /\ gameStarted' = TRUE
    /\ op' = "resetGame"
    /\ lastDir' = NoDir
    /\ turns' = 0
    /\ clicks' = 0
    /\ UNCHANGED <<variant, running, speed, wallMode>>
    /\ intervalEffect(TRUE)

\* mutant: the guard of toggleWallMode is missing
toggleWallModeUnguarded ==
    /\ variant = "B"
    /\ wallMode' = (IF wallMode = "wall" THEN "passthrough" ELSE "wall")
    /\ op' = "toggle"
    /\ UNCHANGED <<variant, snake, direction, food, running, speed, score,
                   gameOver, isPaused, gameStarted, lastDir, turns, clicks>>
    /\ intervalEffect(FALSE)

toggleWallMode ==
    /\ variant = "B"
    /\ IF ~gameStarted \/ gameOver
       THEN wallMode' = (IF wallMode = "wall" THEN "passthrough" ELSE "wall")
       ELSE UNCHANGED wallMode
    /\ op' = "toggle"
    /\ UNCHANGED <<variant, snake, direction, food, running, speed, score,
                   gameOver, isPaused, gameStarted, lastDir, turns, clicks>>
    /\ intervalEffect(FALSE)

\* mutant: the early return does not test isPaused
moveSnakeReturnsIgnoringPause == gameOver \/ ~gameStarted

\* if (gameOver || isPaused || !gameStarted) return;
moveSnakeReturns == gameOver \/ isPaused \/ ~gameStarted

\* the setInterval callback; the interval is armed at all times
moveSnake ==
    /\ variant = "B"
    /\ IF moveSnakeReturns
       THEN UNCHANGED <<snake, food, score, gameOver, lastDir>>
       ELSE LET prevSnake == snake
                head == prevSnake[1]
                stepped == moved(head, direction)
                hitsWall == wallMode = "wall" /\ Outside(stepped, GRID_SIZE)
                newHead == IF wallMode = "wall" THEN stepped ELSE Wrap(stepped)
                newSnake == Prepend(newHead, prevSnake)
            IN  /\ lastDir' = direction
                /\ IF hitsWall \/ some(prevSnake, newHead)
                   THEN /\ gameOver' = TRUE
                        /\ UNCHANGED <<snake, food, score>>
                   ELSE IF newHead.x = food.x /\ newHead.y = food.y
                   THEN /\ Len(prevSnake) - Len(INITIAL_SNAKE) < MaxEats
                        /\ snake' = newSnake
                        /\ score' = score + 10
                        /\ food' \in generateFood(snake)
                        /\ UNCHANGED gameOver
                   ELSE /\ snake' = pop(newSnake)
                        /\ UNCHANGED <<food, score, gameOver>>
    /\ op' = "tick"
    /\ UNCHANGED <<variant, direction, running, speed, isPaused, gameStarted,
                   wallMode, turns, clicks>>
    /\ intervalEffect(FALSE)

\* keydown listener
handleKeyPress ==
    /\ variant = "B"
    /\ \E key \in Keys :
         /\ IF ~gameStarted /\ startsWithArrow(key)
            THEN gameStarted' = TRUE
            ELSE UNCHANGED gameStarted
         /\ IF key = " "
            THEN /\ isPaused' = ~isPaused
                 /\ UNCHANGED <<direction, turns>>
            ELSE /\ direction' = switchDirection(direction, key)
                 /\ IF direction' = direction
                    THEN turns' = turns
                    ELSE /\ turns < MaxTurns
                         /\ turns' = turns + 1
                 /\ UNCHANGED isPaused
         /\ op' = key
    /\ UNCHANGED <<variant, snake, food, running, speed, score, gameOver,
                   wallMode, lastDir, clicks>>
    /\ intervalEffect(renewedDirection(direction, op'))

(***************************************************************************)
(* Specification.                                                          *)
(***************************************************************************)
Next ==
    \/ handleKey
    \/ tickA
    \/ start
    \/ pause
    \/ resume
    \/ restart
    \/ Reset
    \/ Faster
    \/ Slower
    \/ resetGame
    \/ toggleWallMode
    \/ moveSnake
    \/ handleKeyPress

Spec == Init /\ [][Next]_vars

(***************************************************************************)
(* Variant A left to run straight ahead, with any number of clicks on      *)
(* Faster and Slower: the speed goes through its whole range.              *)
(***************************************************************************)
InitSpeed == Init /\ variant = "A"

NextSpeed ==
    \/ tickA
    \/ start
    \/ pause
    \/ resume
    \/ restart
    \/ Reset
    \/ FasterUncounted
    \/ SlowerUncounted

SpecSpeed == InitSpeed /\ [][NextSpeed]_vars


(***************************************************************************)
(* Vocabulary of the properties.                                           *)
(***************************************************************************)
SnakeHead == snake[1]

OnSnake(c) == c \in Range(snake)

InGrid(c) == c.x \in 0..19 /\ c.y \in 0..19

\* head + heading, before any wrapping
Step == [x |-> SnakeHead.x + direction.x, y |-> SnakeHead.y + direction.y]

Lethal == variant = "A" \/ wallMode = "wall"

\* the candidate head: wrapped modulo 20 under the wrap-around policy
Candidate ==
    IF Lethal THEN Step ELSE [x |-> (Step.x + 20) % 20, y |-> (Step.y + 20) % 20]

\* the tick engine is permitted to move the snake
IsRunning ==
    /\ ~gameOver
    /\ IF variant = "A" THEN running ELSE gameStarted /\ ~isPaused

Opposite(d, e) == d.x + e.x = 0 /\ d.y + e.y = 0

ResetOps == {"start", "restart", "reset", "resetGame"}

\* the last callback was the keydown listener
KeyPressed == op \in {"ArrowUp", "ArrowDown", "ArrowLeft", "ArrowRight",
                      "w", "s", "a", "d", " ", "x"}

(***************************************************************************)
(* C1.  The food cell is different from every snake cell in every          *)
(* reachable state of both variants.                                       *)
(***************************************************************************)
C1_FoodOffSnake == ~OnSnake(food)

(***************************************************************************)
(* C2.  The heading a tick applies is never the exact negation of the      *)
(* heading applied by the previous tick of the same game.                  *)
(***************************************************************************)
C2_NoReversal ==
    [][(lastDir # NoDir /\ lastDir' # NoDir) => ~Opposite(lastDir, lastDir')]_vars

(***************************************************************************)
(* C3.  The snake holds no cell twice.                                     *)
(***************************************************************************)
C3_NoDuplicates ==
    \A i, j \in 1..Len(snake) : i # j => snake[i] # snake[j]

\* a tick refused to step onto the snake's own body, in a snake long enough
\* to coil
C3_Witness ==
    /\ op = "tick"
    /\ gameOver
    /\ lastDir = direction
    /\ Len(snake) >= 4
    /\ OnSnake(Candidate)

(***************************************************************************)
(* C4.  Lethal walls: a running tick whose candidate head is outside the   *)
(* grid sets GameOver and leaves snake, food and score alone; ticks while  *)
(* GameOver change none of snake, food, score and status.                  *)
(***************************************************************************)
C4_LethalWall ==
    /\ [][(op' = "tick" /\ IsRunning /\ Lethal /\ ~InGrid(Step))
            => (gameOver' /\ ~IsRunning' /\ snake' = snake /\ food' = food
                /\ score' = score)]_vars
    /\ [][(op' = "tick" /\ gameOver)
            => (gameOver' /\ snake' = snake /\ food' = food /\ score' = score
                /\ running' = running /\ isPaused' = isPaused
                /\ gameStarted' = gameStarted)]_vars

\* variant B ran into a wall and the timer has fired since
C4_Witness ==
    /\ variant = "B"
    /\ op = "tick"
    /\ gameOver
    /\ wallMode = "wall"
    /\ lastDir = direction
    /\ ~InGrid(Step)

(***************************************************************************)
(* C5.  A running tick whose candidate head is on the current snake, the   *)
(* tail cell included, sets GameOver and leaves snake, food and score      *)
(* alone.                                                                  *)
(***************************************************************************)
C5_SelfCollision ==
    [][(op' = "tick" /\ IsRunning /\ OnSnake(Candidate))
         => (gameOver' /\ snake' = snake /\ food' = food /\ score' = score)]_vars

\* the refused cell was the tail cell
C5_Witness ==
    /\ op = "tick"
    /\ gameOver
    /\ lastDir = direction
    /\ Len(snake) >= 2
    /\ Candidate = snake[Len(snake)]

(***************************************************************************)
(* C6.  A running tick whose candidate head is in the grid, off the snake  *)
(* and on the food grows the snake by the candidate head (no tail removed) *)
(* and adds the reward to the score (1 in A, 10 in B); in A the speed      *)
(* becomes max(40, speed - 4).                                             *)
(***************************************************************************)
C6_Eat ==
    [][(op' = "tick" /\ IsRunning /\ InGrid(Candidate) /\ ~OnSnake(Candidate)
          /\ Candidate = food)
         => /\ snake' = <<Candidate>> \o snake
            /\ Len(snake') = Len(snake) + 1
            /\ score' = score + (IF variant = "A" THEN 1 ELSE 10)
            /\ variant = "A" =>
                 speed' = (IF speed - 4 > 40 THEN speed - 4 ELSE 40)]_vars

\* variant A has just eaten with the speed at its floor
C6_Witness ==
    /\ variant = "A"
    /\ op = "tick"
    /\ score = 1
    /\ Len(snake) = 4
    /\ speed = 40

\* variant B has just eaten its first food
C6_WitnessB ==
    /\ variant = "B"
    /\ op = "tick"
    /\ score = 10
    /\ Len(snake) = 2
    /\ SnakeHead = Cell(15, 15)

(***************************************************************************)
(* C7.  A running tick with no boundary, self-collision or food event      *)
(* moves the snake: the new snake is the candidate head followed by the    *)
(* old snake without its last cell; score, food, speed and status stay.    *)
(***************************************************************************)
C7_PlainMove ==
    [][(op' = "tick" /\ IsRunning /\ InGrid(Step) /\ ~OnSnake(Step)
          /\ Step # food)
         => /\ snake' = <<Step>> \o SubSeq(snake, 1, Len(snake) - 1)
            /\ Len(snake') = Len(snake)
            /\ score' = score /\ food' = food /\ speed' = speed
            /\ gameOver' = gameOver /\ running' = running
            /\ isPaused' = isPaused /\ gameStarted' = gameStarted]_vars

\* the example: from [(10,10)] heading (1,0) with food (15,15), six ticks
\* without a turn put the head on (16,10) with no growth
C7_Witness ==
    /\ variant = "B"
    /\ op = "tick"
    /\ turns = 0
    /\ food = Cell(15, 15)
    /\ score = 0
    /\ snake = <<Cell(16, 10)>>

(***************************************************************************)
(* C8.  Wrap-around policy: a candidate coordinate of -1 becomes 19 and a  *)
(* coordinate of 20 becomes 0, and the tick ends the game only if the      *)
(* wrapped head is on the snake.                                           *)
(***************************************************************************)
C8_WrapAround ==
    [][(op' = "tick" /\ variant = "B" /\ IsRunning /\ wallMode = "passthrough")
         => LET wx == IF Step.x = -1 THEN 19 ELSE IF Step.x = 20 THEN 0 ELSE Step.x
                wy == IF Step.y = -1 THEN 19 ELSE IF Step.y = 20 THEN 0 ELSE Step.y
                wrapped == [x |-> wx, y |-> wy]
            IN  IF OnSnake(wrapped)
                THEN gameOver' /\ snake' = snake
                ELSE ~gameOver' /\ snake'[1] = wrapped]_vars

\* the head has just crossed the top edge and come out at the bottom
C8_Witness ==
    /\ variant = "B"
    /\ wallMode = "passthrough"
    /\ op = "tick"
    /\ ~gameOver
    /\ lastDir = Cell(0, -1)
    /\ SnakeHead.y = 19

\* the head has just crossed the right edge and come out at the left
C8_WitnessRight ==
    /\ variant = "B"
    /\ wallMode = "passthrough"
    /\ op = "tick"
    /\ ~gameOver
    /\ lastDir = Cell(1, 0)
    /\ SnakeHead.x = 0

(***************************************************************************)
(* C9.  A reset or restart restores the initial snake, heading, score 0,   *)
(* speed 150, clears the game-over flag and leaves the food off the        *)
(* initial snake ((15,15) in B); afterwards the game is running, except    *)
(* after A's Reset button, which leaves it not started.                    *)
(***************************************************************************)
C9_Reset ==
    /\ op \in {"start", "restart", "reset"} =>
         /\ snake = <<Cell(9, 10), Cell(8, 10), Cell(7, 10)>>
         /\ direction = Cell(1, 0)
         /\ score = 0
         /\ speed = 150
         /\ ~gameOver
         /\ ~OnSnake(food)
         /\ InGrid(food)
         /\ running = (op # "reset")
    /\ op = "resetGame" =>
         /\ snake = <<Cell(10, 10)>>
         /\ direction = Cell(1, 0)
         /\ score = 0
         /\ speed = 150
         /\ ~gameOver
         /\ food = Cell(15, 15)
         /\ IsRunning

\* a restart of variant A, whose previous game was not the first
C9_Witness ==
    /\ variant = "A"
    /\ op = "restart"

\* the game was over and has been reset, the wall policy having been changed
C9_WitnessB ==
    /\ variant = "B"
    /\ op = "resetGame"
    /\ wallMode = "passthrough"

(***************************************************************************)
(* C10.  Status leaves GameOver only by a reset or restart: no tick, key   *)
(* press, pause, resume or other control clears it.                        *)
(***************************************************************************)
C10_GameOverSticks ==
    [][(gameOver /\ ~gameOver') => op' \in ResetOps]_vars

\* resume was called while the game was over
C10_Witness ==
    /\ variant = "A"
    /\ gameOver
    /\ op = "resume"

\* space was pressed while the game was over
C10_WitnessB ==
    /\ variant = "B"
    /\ gameOver
    /\ op = " "
    /\ isPaused

(***************************************************************************)
(* C11.  In variant B every step that leaves NotStarted (an arrow key      *)
(* press among them) leaves the game Running, never Paused.                *)
(***************************************************************************)
C11_StartRuns ==
    [][(variant = "B" /\ ~gameStarted /\ ~gameOver /\ gameStarted')
         => IsRunning']_vars

(***************************************************************************)
(* C12.  In variant B the wall policy changes only by toggleWallMode       *)
(* called while NotStarted or GameOver; called while Running or Paused,    *)
(* toggleWallMode changes no state.                                        *)
(***************************************************************************)
C12_WallPolicyFixed ==
    /\ [][wallMode' # wallMode
            => (op' = "toggle" /\ (~gameStarted \/ gameOver))]_vars
    /\ [][(op' = "toggle" /\ gameStarted /\ ~gameOver)
            => UNCHANGED <<snake, direction, food, score, speed, gameOver,
                           isPaused, gameStarted, wallMode>>]_vars

\* toggleWallMode was called in the middle of a pass-through game
C12_Witness ==
    /\ variant = "B"
    /\ op = "toggle"
    /\ gameStarted
    /\ ~gameOver
    /\ wallMode = "passthrough"
    /\ lastDir # NoDir

(***************************************************************************)
(* C13.  A tick while the game is not Running changes nothing of snake,    *)
(* food, score, speed and status; pausing and resuming change none of      *)
(* snake, food and score.                                                  *)
(***************************************************************************)
C13_TickOnlyWhenRunning ==
    /\ [][(op' = "tick" /\ ~IsRunning)
            => UNCHANGED <<snake, food, score, speed, gameOver, running,
                           isPaused, gameStarted>>]_vars
    /\ [][(op' \in {"pause", "resume"} \/ KeyPressed')
            => UNCHANGED <<snake, food, score>>]_vars

\* the timer fired while variant B was paused in the middle of a game
C13_Witness ==
    /\ variant = "B"
    /\ op = "tick"
    /\ gameStarted
    /\ isPaused
    /\ ~gameOver
    /\ lastDir # NoDir

\* variant A was paused and resumed in the middle of a game
C13_WitnessA ==
    /\ variant = "A"
    /\ op = "resume"
    /\ running
    /\ lastDir # NoDir

(***************************************************************************)
(* C14.  A key press whose heading is the exact negation of the current    *)
(* heading, or a key that maps to no heading, is ignored: heading, snake,  *)
(* food, score, speed and status all stay as they were.                    *)
(* (Space is variant B's pause key and is not a key of this claim.)        *)
(***************************************************************************)
\* the heading a key asks for; <<>> when it asks for none
Asked(k) ==
    CASE k = "ArrowUp" \/ (variant = "A" /\ k = "w")    -> [x |-> 0, y |-> -1]
      [] k = "ArrowDown" \/ (variant = "A" /\ k = "s")  -> [x |-> 0, y |-> 1]
      [] k = "ArrowLeft" \/ (variant = "A" /\ k = "a")  -> [x |-> -1, y |-> 0]
      [] k = "ArrowRight" \/ (variant = "A" /\ k = "d") -> [x |-> 1, y |-> 0]
      [] OTHER -> <<>>

\* the step is a key press that the claim says is ignored
IgnoredPress ==
    /\ KeyPressed'
    /\ ~(variant = "B" /\ op' = " ")
    /\ Asked(op') = <<>> \/ Opposite(Asked(op'), direction)

C14_IgnoredKeyOriginal ==
    [][IgnoredPress
         => UNCHANGED <<direction, snake, food, score, speed, running,
                        gameOver, isPaused, gameStarted, wallMode>>]_vars

\* amended: in variant B an arrow key pressed while NotStarted still starts
\* the game, whatever its heading
C14_IgnoredKey ==
    [][IgnoredPress
         => /\ UNCHANGED <<direction, snake, food, score, speed, running,
                           gameOver, isPaused, wallMode>>
            /\ gameStarted' # gameStarted
                 => (variant = "B" /\ ~gameStarted /\ Asked(op') # <<>>)]_vars

\* variant A, heading right in the middle of a game, was asked to turn left
C14_Witness ==
    /\ variant = "A"
    /\ op = "a"
    /\ running
    /\ direction = Cell(1, 0)
    /\ lastDir = Cell(1, 0)

\* variant B, heading right in the middle of a game, was asked to turn left
C14_WitnessB ==
    /\ variant = "B"
    /\ op = "ArrowLeft"
    /\ IsRunning
    /\ direction = Cell(1, 0)
    /\ lastDir = Cell(1, 0)


(***************************************************************************)
(* C15: in variant A an interval is armed exactly when running and not     *)
(* game over, never more than one, and its period is the current speed;    *)
(* a step that changes the speed and leaves the game running ends with a   *)
(* single interval armed by that step's render, of the new period.         *)
(***************************************************************************)
TimerMatchesSpeed ==
    /\ (timers # <<>>) <=> (running /\ ~gameOver)
    /\ Len(timers) <= 1
    /\ \A i \in 1..Len(timers) : timers[i].period = speed

C15_TimerFollowsSpeed ==
    /\ (variant = "A" => TimerMatchesSpeed)
    /\ [][variant = "A" =>
            /\ TimerMatchesSpeed'
            /\ (speed' # speed /\ running' /\ ~gameOver')
                 => timers' = <<[period |-> speed', fresh |-> TRUE]>>]_vars

C15_Witness ==
    /\ variant = "A" /\ op = "faster" /\ running /\ ~gameOver
    /\ speed = INITIAL_SPEED - 20
    /\ timers = <<[period |-> speed, fresh |-> TRUE]>>

C15_WitnessEat ==
    /\ variant = "A" /\ op = "tick" /\ running /\ Len(snake) > Len(START_SNAKE)
    /\ timers = <<[period |-> INITIAL_SPEED - 4, fresh |-> TRUE]>>


(***************************************************************************)
(* C16: every snake cell after the head is one orthogonal step from its    *)
(* predecessor.  As stated, in plain coordinates, this fails in variant B  *)
(* under the wrap-around policy, where a snake that crossed an edge has    *)
(* neighbouring cells on opposite edges; it holds with the step taken      *)
(* modulo 20, and in plain coordinates in variant A and in a live game of  *)
(* variant B under the lethal policy.                                      *)
(***************************************************************************)
Abs(n) == IF n < 0 THEN -n ELSE n

PlainStep(c, d) == Abs(c.x - d.x) + Abs(c.y - d.y) = 1

WrappedStep(c, d) ==
    LET dx == (c.x - d.x + 20) % 20
        dy == (c.y - d.y + 20) % 20
    IN  \/ dx \in {1, 19} /\ dy = 0
        \/ dx = 0 /\ dy \in {1, 19}

C16_PlainAdjacency ==
    \A i \in 2..Len(snake) : PlainStep(snake[i - 1], snake[i])

C16_Adjacency ==
    /\ \A i \in 2..Len(snake) : WrappedStep(snake[i - 1], snake[i])
    /\ (variant = "A" \/ (wallMode = "wall" /\ ~gameOver)) => C16_PlainAdjacency

C16_Witness ==
    /\ variant = "B" /\ wallMode = "passthrough" /\ op = "tick"
    /\ Len(snake) = 2
    /\ ~PlainStep(snake[1], snake[2])

C16_WitnessA ==
    /\ variant = "A" /\ op = "tick" /\ Len(snake) = Len(START_SNAKE) + 1
    /\ lastDir # START_DIRECTION


(***************************************************************************)
(* C17: in every reachable state of both variants every snake cell and the *)
(* food cell have both coordinates in 0..19: a head that would leave the   *)
(* grid ends the game (lethal policy) or is wrapped (wrap-around policy)   *)
(* before it is put on the snake.                                          *)
(***************************************************************************)
C17_CellsInGrid ==
    /\ \A i \in 1..Len(snake) : InGrid(snake[i])
    /\ InGrid(food)

\* variant A ran into a wall: the game is over and the head stayed inside
C17_Witness ==
    /\ variant = "A" /\ op = "tick" /\ gameOver
    /\ lastDir = direction
    /\ ~InGrid(Step)

\* variant B went through the bottom edge and came back at the top
C17_WitnessWrap ==
    /\ variant = "B" /\ wallMode = "passthrough" /\ op = "tick"
    /\ lastDir = Cell(0, 1)
    /\ SnakeHead.y = 0


(***************************************************************************)
(* C18: in every reachable state the score is the reward times the number  *)
(* of cells grown since the last (re)initialization: Len(snake) - 3 in     *)
(* variant A, 10 * (Len(snake) - 1) in variant B; it is never negative,    *)
(* and no step changes it without changing the length.                     *)
(***************************************************************************)
Grown == Len(snake) - (IF variant = "A" THEN 3 ELSE 1)

Reward == IF variant = "A" THEN 1 ELSE 10

C18_ScoreIsGrowth ==
    /\ score = Reward * Grown
    /\ score >= 0
    /\ [][/\ score' = Reward * Grown'
          /\ score' >= 0
          /\ (score' # score => Len(snake') # Len(snake))]_vars

C18_Witness ==
    /\ variant = "A" /\ op = "tick"
    /\ Len(snake) = 4 /\ score = 1
    /\ speed = INITIAL_SPEED - 4

\* the score stays after the game is lost
C18_WitnessB ==
    /\ variant = "B" /\ op = "tick" /\ gameOver
    /\ Len(snake) = 2 /\ score = 10


(***************************************************************************)
(* C19: in variant A the speed stays within 40..1000: eating sets it to    *)
(* max(40, speed - 4), Faster to max(40, speed - 20), Slower to            *)
(* min(1000, speed + 20), start, restart and Reset to 150, and nothing     *)
(* else changes it.                                                        *)
(***************************************************************************)
AtLeast40(n) == IF n < 40 THEN 40 ELSE n

AtMost1000(n) == IF n > 1000 THEN 1000 ELSE n

C19_SpeedBounds ==
    /\ speed \in 40..1000
    /\ [][variant = "A" =>
            /\ speed' \in 40..1000
            /\ speed' =
                 CASE op' = "faster" -> AtLeast40(speed - 20)
                   [] op' = "slower" -> AtMost1000(speed + 20)
                   [] op' \in {"start", "restart", "reset"} -> 150
                   [] op' = "tick" /\ Len(snake') > Len(snake) -> AtLeast40(speed - 4)
                   [] OTHER -> speed]_vars

\* Slower was clicked up to the ceiling
C19_Witness ==
    /\ variant = "A" /\ op = "slower" /\ speed = 1000

\* food was eaten at the floor
C19_WitnessFloor ==
    /\ variant = "A" /\ op = "tick" /\ speed = 40 /\ score = 1 /\ running
    /\ timers = <<[period |-> 40, fresh |-> TRUE]>>

====
